---- MODULE Spec2Model ----
(***************************************************************************)
(* A model of exchange_rates.py: get_exchange_rates, the one operation of  *)
(* the module, together with the environment it reads (the table published *)
(* at SOURCE_URL, the cache file in the temp folder, the system clock).    *)
(*                                                                         *)
(* Dates are day ordinals (what datetime.strptime(...).date() yields, up   *)
(* to the choice of day 0), so (a - b).days is a - b.  A table holds one   *)
(* row per date, as the ECB history file does; the order of the rows is    *)
(* arbitrary.  A cell is the string the CSV holds: a decimal or the        *)
(* missing-data marker "N/A".  Floats are binary floating point numbers    *)
(* <<m, e>> (value m * 2^e) with a significand of Precision bits, rounded  *)
(* to nearest, ties to even, as IEEE 754 binary64 does with 53 bits; the   *)
(* exponent is not bounded.  The download itself is taken to succeed.      *)
(***************************************************************************)
EXTENDS Integers, Sequences, FiniteSets, TLC

\* source:    the table published at SOURCE_URL (line 31), as lines 90-98 read it
\* cacheFile: CACHE_FILE (line 32): whether it exists, its rows, its mtime
\* clock:     time.time()
\* download:  the last download of lines 90-98: when it was made and what it gave
\* call:      the last call of get_exchange_rates: its arguments, what it read
\*            and what it gave back
VARIABLES source, cacheFile, clock, download, call

vars == <<source, cacheFile, clock, download, call>>

(* ---------------- bounds of the model ---------------- *)
MaxRows == 3
MaxDay == 4
MaxWithin == 3
MaxTicks == 4
MaxTargets == 2
Precision == 4

(* ---------------- program constants ---------------- *)
CACHE_TTL == 86400

\* sys.maxsize, saturated to the integers TLC has
MaxSize == 2147483647

SecondsPerDay == 24 * 3600

\* on_date = None
NoDate == 0 - 1

\* the columns of the CSV besides Date, and the codes a caller may name
Columns == {"USD", "CAD"}
Codes == Columns \cup {"EUR", "XXX"}

\* the decimal strings a cell may hold, with their value in tenths
Tenths == ("0" :> 0) @@ ("0.7" :> 7) @@ ("1.1" :> 11) @@ ("1.5" :> 15)
Cells == DOMAIN Tenths \cup {"N/A"}

(* ---------------- floats ---------------- *)
Zero == <<0, 0>>
One == <<2 ^ (Precision - 1), 1 - Precision>>

\* a division that rounds toward zero
RoundDown(q, r, d) == q

\* the quotient q of a division by d with remainder r, rounded to nearest, ties to even
NearestEven(q, r, d) ==
    IF 2 * r > d \/ (2 * r = d /\ q % 2 = 1) THEN q + 1 ELSE q

\* the float of significand m and exponent e, m having at most one bit too many
Pack(m, e) == IF m = 2 ^ Precision THEN <<2 ^ (Precision - 1), e + 1>> ELSE <<m, e>>

\* the float nearest to (num / den) * 2^e, for integers num, den > 0
RECURSIVE Normalise(_, _, _)
Normalise(num, den, e) ==
    IF num < 2 ^ (Precision - 1) * den THEN Normalise(2 * num, den, e - 1)
    ELSE IF num >= 2 ^ Precision * den THEN Normalise(num, 2 * den, e + 1)
    ELSE Pack(NearestEven(num \div den, num % den, den), e)

\* the division by the base left out: the value as the table has it
RawValue(x, y) == x

\* x / y for floats x and y, y not zero
fdiv(x, y) ==
    IF x = Zero THEN Zero ELSE Normalise(x[1], y[1], x[2] - y[2])

\* float(s) succeeds on the string s
IsDecimal(s) == s \in DOMAIN Tenths

\* float(s) for a decimal string s
ParseFloat(s) == IF Tenths[s] = 0 THEN Zero ELSE Normalise(Tenths[s], 10, 0)

(* ---------------- tables ---------------- *)
Row(d, usd, cad) == [Date |-> d, cells |-> [c \in Columns |-> IF c = "USD" THEN usd ELSE cad]]

DistinctDates(t) == \A i, j \in 1 .. Len(t) : i # j => t[i].Date # t[j].Date

Abs(x) == IF x < 0 THEN 0 - x ELSE x

(* ---------------- get_exchange_rates ---------------- *)

\* a file of exactly CACHE_TTL seconds still used
UseCacheInclusive(cache, file, now) ==
    cache /\ file.exists /\ file.mtime >= now - CACHE_TTL

\* line 79: the cached version is used
UseCache(cache, file, now) ==
    cache /\ file.exists /\ file.mtime > now - CACHE_TTL

\* line 109
Within_Days(row, on_date) == Abs(row.Date - on_date)

\* the date object compared with something that never equals it
ExactMatchNever(row, on_date) == FALSE

\* line 112
ExactMatch(row, on_date) == row.Date = on_date

\* best_row['Within_Days'], best = 0 being the sentinel of line 104
BestDays(rows, best, on_date) ==
    IF best = 0 THEN MaxSize ELSE Within_Days(rows[best], on_date)

\* a later record at the same distance replaces the best one
CloserOrEqual(days, best_days) == days <= best_days

\* line 117
Closer(days, best_days) == days < best_days

\* lines 104-118: the loop from row i on, best being the index of best_row
RECURSIVE ScanFrom(_, _, _, _)
ScanFrom(rows, on_date, i, best) ==
    IF i > Len(rows) THEN [best |-> best, scanned |-> Len(rows)]
    ELSE IF ExactMatch(rows[i], on_date) THEN [best |-> i, scanned |-> i]
    ELSE IF Closer(Within_Days(rows[i], on_date), BestDays(rows, best, on_date))
         THEN ScanFrom(rows, on_date, i + 1, i)
         ELSE ScanFrom(rows, on_date, i + 1, best)

\* a record exactly within_days away accepted
AcceptedInclusive(best_days, within_days) == best_days <= within_days

\* line 127
Accepted(best_days, within_days) == best_days < within_days

\* the keys of best_row that line 123 keeps
RowCurrencies(best) == IF best = 0 THEN {} ELSE Columns

\* the orders in which a set of codes may be iterated
Orders(S) == {s \in [1 .. Cardinality(S) -> S] : \A i, j \in DOMAIN s : i # j => s[i] # s[j]}

\* lines 122-123: target is [none, list]; order is the iteration order of the set
EffectiveTargets(target, order) == IF target.none THEN order ELSE target.list

\* line 129 left out
HasKeyNoEUR(row, cur) == cur \in Columns

\* cur is a key of best_row once line 129 has run (Date, Date_Str and Within_Days,
\* which are keys too, are no currency codes and are not asked for)
HasKey(row, cur) == cur \in Columns \cup {"EUR"}

\* float(best_row[cur]) does not raise ValueError
Numeric(row, cur) == cur = "EUR" \/ IsDecimal(row.cells[cur])

\* float(best_row[cur]), line 129 having set best_row['EUR'] = 1.0
Value(row, cur) == IF cur = "EUR" THEN One ELSE ParseFloat(row.cells[cur])

\* line 132: the exception it raises, "" when it raises none
ConvertError(row, cur, base) ==
    IF ~HasKey(row, cur) THEN "KeyError"
    ELSE IF ~Numeric(row, cur) THEN "ValueError"
    ELSE IF ~HasKey(row, base) THEN "KeyError"
    ELSE IF ~Numeric(row, base) THEN "ValueError"
    ELSE IF Value(row, base) = Zero THEN "ZeroDivisionError"
    ELSE ""

\* continue_on_error not looked at
RaisesUncaughtOnly(err, continue_on_error) == err \notin {"KeyError", "ValueError"}

\* lines 133-140: the exception leaves the loop
Raises(err, continue_on_error) ==
    err \notin {"KeyError", "ValueError"} \/ ~continue_on_error

\* lines 131-140 for the target cur, err being what line 132 raises
Step(row, base, cur, continue_on_error, err, ret) ==
    IF err = "" THEN [raised |-> FALSE, ret |-> (cur :> fdiv(Value(row, cur), Value(row, base))) @@ ret]
    ELSE [raised |-> Raises(err, continue_on_error), ret |-> ret]

\* lines 130-142: the loop from the i-th target on
RECURSIVE Derive(_, _, _, _, _, _)
Continue(row, base, targets, continue_on_error, i, err, step) ==
    IF step.raised THEN [outcome |-> err, ret |-> step.ret, failed_at |-> targets[i]]
    ELSE Derive(row, base, targets, continue_on_error, i + 1, step.ret)

Derive(row, base, targets, continue_on_error, i, ret) ==
    IF i > Len(targets) THEN [outcome |-> "ok", ret |-> ret, failed_at |-> ""]
    ELSE Continue(row, base, targets, continue_on_error, i, ConvertError(row, targets[i], base),
                  Step(row, base, targets[i], continue_on_error, ConvertError(row, targets[i], base), ret))

\* line 73 with line 75: today's date
Today(now) == now \div SecondsPerDay

\* what a failed call returns
NoReturn == <<>>

\* lines 142 and 145: what the call gives back, d being the outcome of the loop
Return(scan, days, targets, d) ==
    [best |-> scan.best, scanned |-> scan.scanned, days |-> days, targets |-> targets,
     outcome |-> d.outcome, ret |-> IF d.outcome = "ok" THEN d.ret ELSE NoReturn,
     failed_at |-> d.failed_at]

\* lines 127-145
Rates(csv_reader, base, targets, within_days, continue_on_error, scan, days) ==
    IF Accepted(days, within_days)
    THEN Return(scan, days, targets,
                Derive(csv_reader[scan.best], base, targets, continue_on_error, 1, <<>>))
    ELSE Return(scan, days, targets, [outcome |-> "RuntimeError", ret |-> <<>>, failed_at |-> ""])

\* lines 103-145 on the table csv_reader, scan being the outcome of lines 104-118
Matched(csv_reader, base, target, date, within_days, continue_on_error, order, scan) ==
    Rates(csv_reader, base, EffectiveTargets(target, order), within_days, continue_on_error,
          scan, BestDays(csv_reader, scan.best, date))

Resolve(csv_reader, base, target, date, within_days, continue_on_error, order) ==
    Matched(csv_reader, base, target, date, within_days, continue_on_error, order,
            ScanFrom(csv_reader, date, 1, 0))

NoFile == [exists |-> FALSE, rows |-> <<>>, mtime |-> 0]

NoCall ==
    [base_currency |-> "", target_currencies |-> [none |-> TRUE, list |-> <<>>],
     on_date |-> NoDate, within_days |-> 0, continue_on_error |-> TRUE, cache |-> TRUE,
     now |-> 0, had_file |-> FALSE, file_mtime |-> 0, fetched |-> FALSE,
     csv_reader |-> <<>>, date |-> 0,
     best |-> 0, scanned |-> 0, days |-> 0, targets |-> <<>>,
     outcome |-> "none", ret |-> NoReturn, failed_at |-> ""]

\* the call seen from outside: its arguments, what it read and what it gave back
Called(base_currency, target_currencies, on_date, within_days, continue_on_error, cache, use, csv_reader, date, r) ==
    [base_currency |-> base_currency, target_currencies |-> target_currencies,
     on_date |-> on_date, within_days |-> within_days,
     continue_on_error |-> continue_on_error, cache |-> cache,
     now |-> clock, had_file |-> cacheFile.exists, file_mtime |-> cacheFile.mtime,
     fetched |-> ~use, csv_reader |-> csv_reader, date |-> date,
     best |-> r.best, scanned |-> r.scanned, days |-> r.days, targets |-> r.targets,
     outcome |-> r.outcome, ret |-> r.ret, failed_at |-> r.failed_at]

\* lines 72-145 once line 79 is decided: use says whether the cached file is read
Run(base_currency, target_currencies, on_date, within_days, continue_on_error, cache, use, csv_reader, date) ==
    \E order \in Orders(IF target_currencies.none
                        THEN RowCurrencies(ScanFrom(csv_reader, date, 1, 0).best) ELSE {}) :
        /\ cacheFile' = IF use THEN cacheFile
                        ELSE [exists |-> TRUE, rows |-> source, mtime |-> clock]
        /\ download' = IF use THEN download ELSE [at |-> clock, rows |-> source]
        /\ call' = Called(base_currency, target_currencies, on_date, within_days,
                          continue_on_error, cache, use, csv_reader, date,
                          Resolve(csv_reader, base_currency, target_currencies, date,
                                  within_days, continue_on_error, order))
        /\ UNCHANGED <<source, clock>>

\* the whole call
get_exchange_rates(base_currency, target_currencies, on_date, within_days, continue_on_error, cache) ==
    Run(base_currency, target_currencies, on_date, within_days, continue_on_error, cache,
        UseCache(cache, cacheFile, clock),
        IF UseCache(cache, cacheFile, clock) THEN cacheFile.rows ELSE source,
        IF on_date = NoDate THEN Today(clock) ELSE on_date)

(* ---------------- the environment ---------------- *)

\* time passes: half a CACHE_TTL at a time, so that a file gets exactly CACHE_TTL old
TickStep == CACHE_TTL \div 2

Tick ==
    /\ clock < MaxTicks * TickStep
    /\ clock' = clock + TickStep
    /\ UNCHANGED <<source, cacheFile, download, call>>

\* the table published at SOURCE_URL changes
Publish(t) ==
    /\ t # source
    /\ source' = t
    /\ UNCHANGED <<cacheFile, clock, download, call>>

(* ---------------- the inputs ---------------- *)

Given(list) == [none |-> FALSE, list |-> list]
Omitted == [none |-> TRUE, list |-> <<>>]

\* lists of at most MaxTargets distinct codes
TargetLists == UNION {Orders(S) : S \in {T \in SUBSET Codes : Cardinality(T) <= MaxTargets}}

\* tables of at most MaxRows rows, one per date, with the same rates in each
DateLists == UNION {{s \in [1 .. n -> 0 .. MaxDay] : \A i, j \in 1 .. n : i # j => s[i] # s[j]} : n \in 0 .. MaxRows}
ScanTables == {[i \in DOMAIN s |-> Row(s[i], "0.7", "1.5")] : s \in DateLists}

\* tables of one or two rows, the row of day 1 holding any cells
RateTables ==
    {<<Row(1, u, c)>> : u, c \in Cells} \cup {<<Row(0, "1.5", "0.7"), Row(1, u, c)>> : u, c \in Cells}

\* a few tables for the runs in which time passes
DayTables == {<<>>, <<Row(0, "0.7", "1.5")>>, <<Row(1, "1.5", "N/A"), Row(0, "0.7", "1.5")>>}

Start(tables) ==
    /\ source \in tables
    /\ cacheFile = NoFile
    /\ clock = 0
    /\ download = [at |-> 0, rows |-> <<>>]
    /\ call = NoCall

(* ---------------- the whole program: calls as time passes ---------------- *)
Init == Start(DayTables)

Next ==
    \/ \E target \in {Omitted, Given(<<"CAD">>)}, on_date \in {NoDate, 0}, cache \in BOOLEAN :
          get_exchange_rates("USD", target, on_date, 1, TRUE, cache)
    \/ Tick
    \/ \E t \in DayTables : Publish(t)

Spec == Init /\ [][Next]_vars

(* ---------------- the search for the closest date ---------------- *)
InitScan == Start(ScanTables)

\* one call on each table
NextScan ==
    /\ call = NoCall
    /\ \E target \in {Given(<<"CAD">>), Given(<<"XXX">>)}, on_date \in 0 .. MaxDay,
       within_days \in 0 .. MaxWithin, continue_on_error \in BOOLEAN :
            get_exchange_rates("USD", target, on_date, within_days, continue_on_error, TRUE)

SpecScan == InitScan /\ [][NextScan]_vars

(* ---------------- the derivation of the rates ---------------- *)
InitRates == Start(RateTables)

\* one call on each table
NextRates ==
    /\ call = NoCall
    /\ \E base \in Codes, target \in {Omitted} \cup {Given(l) : l \in TargetLists},
       within_days \in 1 .. 2, continue_on_error \in BOOLEAN :
            get_exchange_rates(base, target, 1, within_days, continue_on_error, TRUE)

SpecRates == InitRates /\ [][NextRates]_vars

(* ================= the properties ================= *)

Ran == call.outcome # "none"
Succeeded == call.outcome = "ok"
\* a record was accepted within the tolerance
AcceptedCall == Ran /\ call.outcome # "RuntimeError"

Rows == call.csv_reader
Dist(i) == Abs(Rows[i].Date - call.date)
\* the smallest distance of a record of a table that is not empty
MinDist == CHOOSE d \in {Dist(i) : i \in 1 .. Len(Rows)} : \A j \in 1 .. Len(Rows) : d <= Dist(j)
MatchedRow == Rows[call.best]
Targets == {call.targets[i] : i \in 1 .. Len(call.targets)}

\* what the matched record holds for cur, EUR being 1.0
Present(cur) == cur = "EUR" \/ cur \in DOMAIN MatchedRow.cells
PresentNumeric(cur) == cur = "EUR" \/ (cur \in DOMAIN MatchedRow.cells /\ MatchedRow.cells[cur] \in DOMAIN Tenths)
Recorded(cur) == IF cur = "EUR" THEN One ELSE ParseFloat(MatchedRow.cells[cur])
NonZero(cur) == PresentNumeric(cur) /\ Recorded(cur) # Zero

\* x is a float nearest to a / b
CorrectlyRounded(x, a, b) ==
    IF a = Zero THEN x = Zero
    ELSE LET s == x[2] + b[2]
             t == a[2]
             k == IF s < t THEN s ELSE t
             xb == x[1] * b[1] * 2 ^ (s - k)
             aa == a[1] * 2 ^ (t - k)
         IN  /\ 2 ^ (Precision - 1) <= x[1] /\ x[1] < 2 ^ Precision
             /\ 2 * Abs(xb - aa) <= b[1] * 2 ^ (s - k)

\* |x * y - 1| <= 2u + u^2, u = 2^(-Precision) being the unit roundoff
ProductNearOne(x, y) ==
    LET E == x[2] + y[2] + 2 * Precision
    IN  /\ E >= 0
        /\ Abs(x[1] * y[1] * 2 ^ E - 2 ^ (2 * Precision)) <= 2 ^ (Precision + 1) + 1

\* the same call with other arguments
Again(base, list, within_days) ==
    Resolve(Rows, base, Given(list), call.date, within_days, call.continue_on_error, <<>>)

(* C1: the call fails with "No exchange rates found" exactly when the table *)
(* is empty or the smallest distance in days between a record's date and    *)
(* on_date is not strictly less than within_days, whatever continue_on_error *)
(* is.                                                                       *)
C1_NoRatesExactly ==
    Ran => (call.outcome = "RuntimeError"
              <=> (Len(Rows) = 0 \/ ~(MinDist < call.within_days)))

C1_Witness ==
    /\ call.outcome = "RuntimeError" /\ ~call.continue_on_error
    /\ Len(Rows) = MaxRows /\ call.within_days > 0 /\ MinDist = call.within_days

(* C3: when a query succeeds, the record used is the first one, in the     *)
(* order of the table, whose distance to on_date is the smallest of the    *)
(* whole table.                                                            *)
C3_FirstClosest ==
    Succeeded =>
        /\ call.best \in 1 .. Len(Rows)
        /\ Dist(call.best) = MinDist
        /\ \A j \in 1 .. (call.best - 1) : Dist(j) > MinDist

C3_Witness ==
    /\ Succeeded /\ call.best > 1 /\ Dist(call.best) > 0
    /\ \E j \in (call.best + 1) .. Len(Rows) : Dist(j) = Dist(call.best)

(* C4: a query for the date of a record r, with within_days > 0, matches r: *)
(* the scan stops at r, the call does not fail for want of a date, and its  *)
(* outcome is that of the same call with any other positive within_days.    *)
C4_ExactDate ==
    \A i \in 1 .. Len(Rows) :
        (Ran /\ call.within_days > 0 /\ Rows[i].Date = call.date) =>
            /\ call.best = i /\ call.scanned = i
            /\ call.outcome # "RuntimeError"
            /\ \A w \in 1 .. (MaxWithin + 1) :
                   LET r == Again(call.base_currency, call.targets, w)
                   IN  r.best = i /\ r.outcome = call.outcome /\ r.ret = call.ret

C4_Witness ==
    /\ Succeeded /\ call.within_days = 1 /\ Len(Rows) = MaxRows
    /\ call.best = 2 /\ Rows[2].Date = call.date /\ call.ret # <<>>

(* C2: when a query succeeds, every entry of the result is the value of the *)
(* currency divided by the value of the base currency in the matched        *)
(* record, EUR being 1.0; with base EUR it is the value of the record.      *)
C2_Ratio ==
    Succeeded =>
        \A cur \in DOMAIN call.ret :
            /\ PresentNumeric(cur) /\ NonZero(call.base_currency)
            /\ CorrectlyRounded(call.ret[cur], Recorded(cur), Recorded(call.base_currency))
            /\ call.base_currency = "EUR" => call.ret[cur] = Recorded(cur)

C2_Witness ==
    /\ Succeeded /\ call.base_currency = "USD" /\ call.best = 2
    /\ DOMAIN call.ret = {"EUR", "CAD"}
    /\ call.ret["EUR"] # One /\ call.ret["CAD"] # Recorded("CAD")

(* C5: with continue_on_error, once a record is accepted the call does not *)
(* raise: the targets that are absent from the record or not numeric (or   *)
(* whose base is) are left out, and every other target is returned.        *)
C5_TolerantNeverRaises ==
    (AcceptedCall /\ call.continue_on_error) =>
        /\ Succeeded
        /\ DOMAIN call.ret = {cur \in Targets : PresentNumeric(cur) /\ PresentNumeric(call.base_currency)}

\* the i-th target cannot be converted
CannotConvert(i) ==
    \/ ~PresentNumeric(call.targets[i])
    \/ ~PresentNumeric(call.base_currency)
    \/ Recorded(call.base_currency) = Zero

(* C6: without continue_on_error, if a target (or the base) is absent from *)
(* the matched record or not numeric, the call raises at the first target  *)
(* that cannot be converted and returns no mapping.                        *)
C6_StrictRaises ==
    (AcceptedCall /\ ~call.continue_on_error
       /\ \E i \in 1 .. Len(call.targets) :
              ~PresentNumeric(call.targets[i]) \/ ~PresentNumeric(call.base_currency)) =>
        /\ call.outcome \in {"KeyError", "ValueError", "ZeroDivisionError"}
        /\ call.ret = NoReturn
        /\ \E i \in 1 .. Len(call.targets) :
               /\ CannotConvert(i)
               /\ \A j \in 1 .. (i - 1) : ~CannotConvert(j)
               /\ call.failed_at = call.targets[i]
               /\ call.outcome = "KeyError" <=>
                      (~Present(call.targets[i])
                         \/ (PresentNumeric(call.targets[i]) /\ ~Present(call.base_currency)))

C6_Witness ==
    /\ AcceptedCall /\ ~call.continue_on_error /\ Len(call.targets) = 2
    /\ ~CannotConvert(1) /\ call.failed_at = call.targets[2] /\ call.outcome = "ValueError"

(* C7, as claimed: a query with base cur and the one target cur returns    *)
(* {cur: 1.0} for every currency cur, once a record is accepted.           *)
C7_Reflexive ==
    (AcceptedCall /\ ~call.target_currencies.none
       /\ call.target_currencies.list = <<call.base_currency>>) =>
        Succeeded /\ call.ret = (call.base_currency :> One)

(* C7, amended: it returns {cur: 1.0} when cur is EUR or holds a numeric   *)
(* value other than zero in the accepted record; when cur is absent or not *)
(* numeric it returns {} with continue_on_error and raises KeyError or     *)
(* ValueError without; when the value is zero it raises ZeroDivisionError. *)
C7_ReflexiveWhereNumeric ==
    (AcceptedCall /\ ~call.target_currencies.none
       /\ call.target_currencies.list = <<call.base_currency>>) =>
        IF NonZero(call.base_currency)
        THEN Succeeded /\ call.ret = (call.base_currency :> One)
        ELSE IF PresentNumeric(call.base_currency)
        THEN call.outcome = "ZeroDivisionError"
        ELSE IF call.continue_on_error
        THEN Succeeded /\ call.ret = <<>>
        ELSE call.outcome = (IF Present(call.base_currency) THEN "ValueError" ELSE "KeyError")

C7_Witness ==
    /\ Succeeded /\ call.base_currency = "CAD" /\ call.target_currencies = Given(<<"CAD">>)
    /\ call.ret = ("CAD" :> One) /\ MatchedRow.cells["CAD"] = "0.7"

(* C8, as claimed: for two currencies A and B with numeric values in the   *)
(* matched record (other than zero, so that both rates exist), the rate of *)
(* B for base A is the reciprocal of the rate of A for base B, over the    *)
(* same table, date and tolerance.                                         *)
C8_Reciprocal ==
    \A A, B \in Codes :
        (AcceptedCall /\ NonZero(A) /\ NonZero(B)
           /\ call.base_currency = A /\ call.target_currencies = Given(<<B>>)) =>
            LET r == Again(B, <<A>>, call.within_days)
            IN  /\ Succeeded /\ r.outcome = "ok"
                /\ B \in DOMAIN call.ret /\ A \in DOMAIN r.ret
                /\ call.ret[B] = fdiv(One, r.ret[A])

(* C8, amended: for two currencies A and B with numeric values other than  *)
(* zero, both queries succeed and the two rates are reciprocal up to the   *)
(* rounding of the two divisions: their product differs from 1 by at most  *)
(* 2u + u^2, u being the unit roundoff of the floats.                      *)
C8_ReciprocalUpToRounding ==
    \A A, B \in Codes :
        (AcceptedCall /\ NonZero(A) /\ NonZero(B)
           /\ call.base_currency = A /\ call.target_currencies = Given(<<B>>)) =>
            LET r == Again(B, <<A>>, call.within_days)
            IN  /\ Succeeded /\ r.outcome = "ok"
                /\ B \in DOMAIN call.ret /\ A \in DOMAIN r.ret
                /\ ProductNearOne(call.ret[B], r.ret[A])

C8_Witness ==
    /\ Succeeded /\ call.base_currency = "USD" /\ call.target_currencies = Given(<<"CAD">>)
    /\ NonZero("USD") /\ NonZero("CAD")
    /\ call.ret["CAD"] # fdiv(One, Again("CAD", <<"USD">>, call.within_days).ret["USD"])

(* C9: when the caller gives no targets (None, or an empty collection as   *)
(* the docstring has it), the targets are all the currencies of the        *)
(* matched record.                                                         *)
C9_AllSymbols ==
    (AcceptedCall /\ (call.target_currencies.none \/ call.target_currencies.list = <<>>)) =>
        Targets = DOMAIN MatchedRow.cells

(* C10: a call reads the stored table, without a download, exactly when    *)
(* cache is true and the cache file exists and is younger than CACHE_TTL;  *)
(* otherwise it downloads the table once and stores it; so a table read    *)
(* from the file was downloaded less than CACHE_TTL before the call.       *)
C10_CacheDiscipline ==
    Ran =>
        /\ call.fetched = ~(call.cache /\ call.had_file /\ call.now - call.file_mtime < CACHE_TTL)
        /\ cacheFile = [exists |-> TRUE, rows |-> download.rows, mtime |-> download.at]
        /\ call.csv_reader = download.rows
        /\ call.fetched => download.at = call.now
        /\ ~call.fetched => (download.at = call.file_mtime /\ call.now - download.at < CACHE_TTL)

C10_Witness ==
    /\ Succeeded /\ ~call.fetched /\ call.now - download.at = TickStep
    /\ call.csv_reader # source /\ clock = call.now

====
